---- MODULE Spec2Model ----
\* A state-machine model of src/src/model/model.py: class LSTM, its constructor,
\* load_data, build, the epoch loop of train(), log_loss and save_model, together
\* with the files of the run's output directory.
EXTENDS Integers, Sequences, FiniteSets, TLC

\* ---------------------------------------------------------------- bounds
MaxEpochs == 3
MaxVal == 4
MaxBatch == 3
MaxClock == 2
TicksPerMinute == 2

\* ---------------------------------------------------------------- inputs
Inst == {1, 2}
Procs == {1, 2}
TrainFiles == {0, 1}
ValFiles == {0, 3}
Gammas == {<<1, 2>>, <<3, 4>>}
InitialRates == {<<1, 10>>}

\* ---------------------------------------------------------------- helpers
\* Python floats are modelled as fractions <<numerator, denominator>>.
RatLess(a, b) == a[1] * b[2] < b[1] * a[2]
RatEq(a, b) == a[1] * b[2] = b[1] * a[2]
RatMul(a, b) == <<a[1] * b[1], a[2] * b[2]>>

Min(a, b) == IF a < b THEN a ELSE b

\* A file (or an attribute that may be None) is <<>> when absent, <<content>> otherwise.
NoFile == <<>>
File(c) == <<c>>

\* clock         the time, in ticks
\* cfg           the configuration every instance is constructed with
\* invocations   how many times the caller invokes train() on an instance
\* pid           the process each instance lives in
\* root_handler  per process, the directory whose train.log the root logger
\*               writes to (logging.basicConfig configures it once per process)
\* disk          per output directory, its files and who wrote each
\* self          per instance, the attributes of the LSTM object
\* frame         per instance, its position (pc) and the locals of train()
\* hist          per instance, the history the properties refer to
VARIABLES clock, cfg, invocations, pid, root_handler, disk, self, frame, hist

vars == <<clock, cfg, invocations, pid, root_handler, disk, self, frame, hist>>

\* strftime('%Y-%m-%d-%H-%M'): the startup time truncated to the minute.
strftime(t) == t \div TicksPerMinute

Dirs == 0..strftime(MaxClock)

FileNames == {"train_log", "loss_log", "loss_png", "best_model_pth", "best_model_pt"}

\* len(DataLoader) for a dataset of n samples and batch size b (drop_last = False).
len_dataloader(n, b) == (n + b - 1) \div b

\* The samples (numbered from 1) of the k-th batch, k counted from 0.
batch_samples(n, b, k) == (k * b + 1)..Min((k + 1) * b, n)

\* '%.8f': a fraction rendered with 8 decimals, as a count of 1e-8 units.
Scale8 == 100000000

fmt8(r) ==
  LET q == (r[1] * Scale8) \div r[2]
      m == (r[1] * Scale8) % r[2]
  IN IF 2 * m >= r[2] THEN q + 1 ELSE q

\* np.column_stack((train_loss, val_loss)) written by np.savetxt(fmt='%.8f').
savetxt(tl, vl) == [k \in 1..Len(tl) |-> <<fmt8(tl[k]), fmt8(vl[k])>>]

\* np.linspace(0, epoch, epoch + 1).tolist()
linspace(epoch) == [k \in 1..(epoch + 1) |-> k - 1]

\* logger.info(...): one more line, tagged with its author, in the file the
\* process-wide root handler writes to.
logger_info(dsk, h, i, tag) ==
  [dsk EXCEPT ![h[1]].train_log = @ \cup {<<i, tag>>},
              ![h[1]].writers.train_log = @ \cup {i}]

\* A variant of the write: loss.log opened in append mode.
write_file_append(dsk, d, f, content, i) ==
  [dsk EXCEPT ![d][f] = IF f = "loss_log" /\ @ # NoFile THEN File(@[1] \o content)
                        ELSE File(content),
              ![d].writers[f] = @ \cup {i}]

\* A file of directory d written (created or overwritten in full) by instance i.
write_file(dsk, d, f, content, i) ==
  [dsk EXCEPT ![d][f] = File(content), ![d].writers[f] = @ \cup {i}]

EmptyDir ==
  [exists |-> FALSE, train_log |-> {}, loss_log |-> NoFile, loss_png |-> NoFile,
   best_model_pth |-> NoFile, best_model_pt |-> NoFile,
   writers |-> [f \in FileNames |-> {}]]

NoSelf ==
  [model |-> NoFile, train_data |-> 0, val_data |-> 0,
   train_loss |-> <<>>, val_loss |-> <<>>, save_to |-> 0]

NoFrame ==
  [pc |-> "absent", calls |-> 0, epoch |-> 0, highest_acc |-> <<0, 1>>,
   lr |-> <<0, 1>>, train_samples_count |-> 0, val_samples_count |-> 0,
   train_loss_sum |-> 0, batch_index |-> 0,
   val_loss_sum |-> 0, val_acc_sum |-> 0, val_acc_mean |-> <<0, 1>>,
   val_index |-> 0, no_grad |-> FALSE]

\* History kept for the properties only.  Of the current train() call: the epochs
\* begun, the accuracy and the weights of each validation pass, the epochs of the
\* save_model and log_loss calls, the rates logged, the numbers of scheduler
\* steps and of training passes, the predictions of the validation pass under
\* way (sample -> predicted right) and the batch losses of the training pass
\* under way, and whether a step of the call raised.  Of the instance:
\* the epochs completed, the batch losses of every training pass that reached
\* its end and the number of wrong predictions of every validation pass that
\* reached its end.
NoHist ==
  [epochs |-> <<>>, accs |-> <<>>, validated |-> <<>>, saves |-> <<>>,
   log_calls |-> <<>>, rates |-> <<>>, decays |-> 0, passes |-> 0,
   correct |-> <<>>, batch_losses |-> <<>>, failed |-> FALSE,
   completed |-> 0, train_batches |-> <<>>, val_wrong |-> <<>>]

\* The options of the configuration that are read; cfg.missing names the one
\* that the configuration lacks ("none" when it is complete).  Reading an
\* attribute the configuration lacks raises AttributeError at that line.
Fields ==
  {"root_dir", "train.loss_weight", "train.lr", "train.gamma",
   "train.train_batch_size", "train.val_batch_size", "train.epoch",
   "model.input_size", "device"}

\* Read by BaseModel.__init__(config), which sets self.device.
BaseModel_reads == {"device"}

\* Read by LSTM.__init__ itself.
init_reads == {"train.loss_weight", "root_dir"}

\* Read by Network(config): the shape of the network's input is the configured
\* input size.
Network_reads == {"model.input_size"}

\* A variant of train(): the scheduler, with gamma, is made when first needed.
train_reads_lazy == {"train.lr", "train.train_batch_size", "train.val_batch_size"}

\* Read by train() before 'Training started.': optimizer, scheduler, loaders.
train_reads ==
  {"train.lr", "train.gamma", "train.train_batch_size", "train.val_batch_size"}

\* Read by train() at the head of the loop: range(self.config.train.epoch).
loop_reads == {"train.epoch"}

\* Read by save_model: the shape of the input the copy is traced with.
save_model_reads == {"model.input_size"}

\* The configuration, with the numbers of files the data loader finds under it:
\* runs of every length over a few data sets, single-epoch runs over every size
\* and batching of the validation set, and two-epoch runs of two training
\* batches each.
EpochConfigs ==
  [epoch: 0..MaxEpochs, lr: InitialRates, gamma: Gammas,
   train_batch_size: {1}, val_batch_size: {2},
   train_files: TrainFiles, val_files: ValFiles, missing: {"none"}]

BatchConfigs ==
  [epoch: {1}, lr: InitialRates, gamma: Gammas,
   train_batch_size: {2}, val_batch_size: 1..MaxBatch,
   train_files: {3}, val_files: 0..MaxVal, missing: {"none"}]

PassConfigs ==
  [epoch: {2}, lr: InitialRates, gamma: Gammas,
   train_batch_size: {1}, val_batch_size: {1},
   train_files: {2}, val_files: {1}, missing: {"none"}]

Configs == EpochConfigs \cup BatchConfigs \cup PassConfigs

\* Configurations that lack one option, and the same ones complete.
StartupConfigs ==
  [epoch: {2}, lr: InitialRates, gamma: Gammas,
   train_batch_size: {1}, val_batch_size: {1},
   train_files: {2}, val_files: {1}, missing: Fields \cup {"none"}]

\* LSTM.__init__ of instance i at time t, in a process whose root logger has
\* handler h (NoFile when logging is not configured yet): os.makedirs with
\* exist_ok, logging.basicConfig, the first two log lines.
init_disk(dsk, h, t, i) ==
  LET d == strftime(t)
      made == [dsk EXCEPT ![d].exists = TRUE]
      nh == IF h = NoFile THEN File(d) ELSE h
  IN logger_info(logger_info(made, nh, i, "date"), nh, i, "config")

init_self(t) == [NoSelf EXCEPT !.save_to = strftime(t)]


\* ---------------------------------------------------------------- operations
\* A variant of the exception: caught around the body of the loop, which goes
\* on with the next epoch.
raise_caught(fr) == [fr EXCEPT !.pc = "for_epoch", !.epoch = @ + 1]

\* An exception leaves the method under way: its frame, with its locals, is gone.
raise(fr) == [NoFrame EXCEPT !.pc = "aborted", !.calls = fr.calls]

\* Time passes.
Tick ==
  /\ clock < MaxClock
  /\ clock' = clock + 1
  /\ UNCHANGED <<cfg, invocations, pid, root_handler, disk, self, frame, hist>>

\* LSTM.__init__
Construct(i) ==
  /\ frame[i].pc = "absent"
  /\ IF cfg.missing \in BaseModel_reads \cup init_reads
     THEN /\ frame' = [frame EXCEPT ![i] = raise(@)]
          /\ hist' = [hist EXCEPT ![i].failed = TRUE]
          /\ UNCHANGED <<root_handler, disk, self>>
     ELSE /\ root_handler' = [root_handler EXCEPT ![pid[i]] =
                                IF @ = NoFile THEN File(strftime(clock)) ELSE @]
          /\ disk' = init_disk(disk, root_handler[pid[i]], clock, i)
          /\ self' = [self EXCEPT ![i] = init_self(clock)]
          /\ frame' = [frame EXCEPT ![i].pc = "constructed"]
          /\ UNCHANGED hist
  /\ UNCHANGED <<clock, cfg, invocations, pid>>

\* LSTM.load_data
load_data(i) ==
  /\ frame[i].pc = "constructed"
  /\ self' = [self EXCEPT ![i].train_data = cfg.train_files,
                          ![i].val_data = cfg.val_files]
  /\ frame' = [frame EXCEPT ![i].pc = "loaded"]
  /\ UNCHANGED <<clock, cfg, invocations, pid, root_handler, disk, hist>>

\* Network(config): a fresh module, in training mode, every parameter trainable.
Network == [weights |-> 0, training |-> TRUE, requires_grad |-> TRUE]

\* LSTM.build
build(i) ==
  /\ frame[i].pc = "loaded"
  /\ IF cfg.missing \in Network_reads
     THEN /\ frame' = [frame EXCEPT ![i] = raise(@)]
          /\ hist' = [hist EXCEPT ![i].failed = TRUE]
          /\ UNCHANGED <<self, disk>>
     ELSE /\ self' = [self EXCEPT ![i].model = File(Network)]
          /\ disk' = logger_info(disk, root_handler[pid[i]], i, "model")
          /\ frame' = [frame EXCEPT ![i].pc = "built"]
          /\ UNCHANGED hist
  /\ UNCHANGED <<clock, cfg, invocations, pid, root_handler>>

\* LSTM.train, up to the loop: optimizer, scheduler, loaders, counts, highest_acc.
\* The caller invokes train() on the built instance, `invocations` times in all.
train(i) ==
  /\ frame[i].pc \in {"built", "finished"}
  /\ frame[i].calls < invocations
  /\ frame' = [frame EXCEPT ![i] =
       IF cfg.missing \in train_reads \cup loop_reads
       THEN raise([@ EXCEPT !.calls = @ + 1])
       ELSE [NoFrame EXCEPT !.pc = "for_epoch", !.calls = frame[i].calls + 1,
                            !.lr = cfg.lr,
                            !.train_samples_count = self[i].train_data,
                            !.val_samples_count = self[i].val_data,
                            !.highest_acc = <<0, 1>>]]
  /\ hist' = [hist EXCEPT ![i] =
       [NoHist EXCEPT !.completed = hist[i].completed,
                      !.train_batches = hist[i].train_batches,
                      !.val_wrong = hist[i].val_wrong,
                      !.failed = cfg.missing \in train_reads \cup loop_reads]]
  /\ disk' = IF cfg.missing \in train_reads THEN disk
             ELSE logger_info(disk, root_handler[pid[i]], i, "started")
  /\ UNCHANGED <<clock, cfg, invocations, pid, root_handler, self>>

\* A variant of the loop: model.train() is left out.
model_train_omitted(m) == m

\* self.model.train(): learning mode.
model_train(m) == [m EXCEPT !.training = TRUE]

\* self.model.eval(): inference mode.
model_eval(m) == [m EXCEPT !.training = FALSE]

\* for epoch in range(epoch): the next epoch starts; model.train().
epoch_begin(i) ==
  /\ frame[i].pc = "for_epoch"
  /\ frame[i].epoch < cfg.epoch
  /\ frame' = [frame EXCEPT ![i].pc = "batch", ![i].train_loss_sum = 0,
                            ![i].batch_index = 0]
  /\ self' = [self EXCEPT ![i].model[1] = model_train(@)]
  /\ hist' = [hist EXCEPT ![i].epochs = Append(@, frame[i].epoch),
                          ![i].batch_losses = <<>>]
  /\ UNCHANGED <<clock, cfg, invocations, pid, root_handler, disk>>

\* A variant of the loop's end: range(epoch - 1).
train_return_early(i) ==
  /\ frame[i].pc = "for_epoch"
  /\ frame[i].epoch + 1 >= cfg.epoch
  /\ frame' = [frame EXCEPT ![i].pc = "finished"]
  /\ disk' = logger_info(disk, root_handler[pid[i]], i, "finished")
  /\ UNCHANGED <<clock, cfg, invocations, pid, root_handler, self, hist>>

\* The loop is exhausted: 'Training finished.'
train_return(i) ==
  /\ frame[i].pc = "for_epoch"
  /\ frame[i].epoch >= cfg.epoch
  /\ frame' = [frame EXCEPT ![i].pc = "finished"]
  /\ disk' = logger_info(disk, root_handler[pid[i]], i, "finished")
  /\ UNCHANGED <<clock, cfg, invocations, pid, root_handler, self, hist>>

\* optimizer.step(): the weights after one more update.
optimizer_step(m) == [m EXCEPT !.weights = @ + 1]

\* One training batch: forward, loss, backward, optimizer step.  The loss of a
\* batch is abstracted to the number of its misclassified samples.
train_batch(i) ==
  LET n == frame[i].train_samples_count
      b == cfg.train_batch_size
  IN /\ frame[i].pc = "batch"
     /\ frame[i].batch_index < len_dataloader(n, b)
     /\ \E loss \in 0..Cardinality(batch_samples(n, b, frame[i].batch_index)) :
          /\ frame' = [frame EXCEPT ![i].train_loss_sum = @ + loss,
                                    ![i].batch_index = @ + 1]
          /\ hist' = [hist EXCEPT ![i].batch_losses = Append(@, loss)]
     /\ self' = [self EXCEPT ![i].model[1] = optimizer_step(@)]
     /\ UNCHANGED <<clock, cfg, invocations, pid, root_handler, disk>>

\* A variant of the mean: the sum, not divided.
mean_undivided(loss_sum, nb) == <<loss_sum, 1>>

\* loss_sum / len(dataloader)
mean(loss_sum, nb) == <<loss_sum, nb>>

\* self.train_loss.append(train_loss_sum / len(train_dataloader))
append_train_loss(i) ==
  LET nb == len_dataloader(frame[i].train_samples_count, cfg.train_batch_size)
  IN /\ frame[i].pc = "batch"
     /\ frame[i].batch_index = nb
     /\ IF nb = 0
        THEN /\ frame' = [frame EXCEPT ![i] = raise(@)]
             /\ hist' = [hist EXCEPT ![i].batch_losses = <<>>, ![i].failed = TRUE]
             /\ UNCHANGED self
        ELSE /\ self' = [self EXCEPT ![i].train_loss =
                           Append(@, mean(frame[i].train_loss_sum, nb))]
             /\ frame' = [frame EXCEPT ![i].pc = "sched"]
             /\ hist' = [hist EXCEPT ![i].passes = @ + 1,
                                     ![i].train_batches = Append(@, hist[i].batch_losses),
                                     ![i].batch_losses = <<>>]
     /\ UNCHANGED <<clock, cfg, invocations, pid, root_handler, disk>>

\* A variant of the scheduler: no decay.
ExponentialLR_constant(lr, gamma) == lr

\* ExponentialLR.step(): lr := lr * gamma
ExponentialLR(lr, gamma) == RatMul(lr, gamma)

\* 'Current Learning Rate' is logged, then scheduler.step().
scheduler_step(i) ==
  /\ frame[i].pc = "sched"
  /\ disk' = logger_info(disk, root_handler[pid[i]], i, "lr")
  /\ hist' = [hist EXCEPT ![i].rates = Append(@, frame[i].lr),
                          ![i].decays = @ + 1]
  /\ frame' = [frame EXCEPT ![i].lr = ExponentialLR(@, cfg.gamma),
                            ![i].pc = "val_begin"]
  /\ UNCHANGED <<clock, cfg, invocations, pid, root_handler, self>>

\* Validation starts: the sums are zeroed, model.eval(), torch.no_grad().
val_begin(i) ==
  /\ frame[i].pc = "val_begin"
  /\ frame' = [frame EXCEPT ![i].pc = "val", ![i].val_loss_sum = 0,
                            ![i].val_acc_sum = 0, ![i].val_acc_mean = <<0, 1>>,
                            ![i].val_index = 0, ![i].no_grad = TRUE]
  /\ self' = [self EXCEPT ![i].model[1] = model_eval(@)]
  /\ hist' = [hist EXCEPT ![i].correct = <<>>]
  /\ UNCHANGED <<clock, cfg, invocations, pid, root_handler, disk>>

\* (prediction == y).sum().item() over the samples of one batch.
correct_count(c, samples) == Cardinality({s \in samples : c[s]})

\* One validation batch: forward (a prediction, right or wrong, for each sample
\* of the batch), loss, count of correct predictions.  The loss of a batch is
\* abstracted to the number of its misclassified samples.
val_batch(i) ==
  LET n == frame[i].val_samples_count
      b == cfg.val_batch_size
      samples == batch_samples(n, b, frame[i].val_index)
  IN /\ frame[i].pc = "val"
     /\ frame[i].val_index < len_dataloader(n, b)
     /\ \E right \in SUBSET samples :
          LET c == [s \in DOMAIN hist[i].correct \cup samples |->
                      IF s \in samples THEN s \in right ELSE hist[i].correct[s]]
              ok == correct_count(c, samples)
          IN /\ frame' = [frame EXCEPT
                            ![i].val_loss_sum = @ + (Cardinality(samples) - ok),
                            ![i].val_acc_sum = @ + ok,
                            ![i].val_index = @ + 1]
             /\ hist' = [hist EXCEPT ![i].correct = c]
     /\ UNCHANGED <<clock, cfg, invocations, pid, root_handler, disk, self>>

\* A variant of the accuracy: the sample count taken as batches * batch size.
accuracy_full_batches(acc_sum, samples_count, batches, batch_size) ==
  <<acc_sum, batches * batch_size>>

\* val_acc_sum / val_samples_count
accuracy(acc_sum, samples_count, batches, batch_size) == <<acc_sum, samples_count>>

\* val_acc_mean = val_acc_sum / val_samples_count, logged with the mean loss.
val_acc(i) ==
  LET n == frame[i].val_samples_count
  IN /\ frame[i].pc = "val"
     /\ frame[i].val_index = len_dataloader(n, cfg.val_batch_size)
     /\ IF n = 0
        THEN /\ frame' = [frame EXCEPT ![i] = raise(@)]
             /\ hist' = [hist EXCEPT ![i].correct = <<>>, ![i].failed = TRUE]
             /\ UNCHANGED disk
        ELSE /\ frame' = [frame EXCEPT ![i].val_acc_mean =
                              accuracy(frame[i].val_acc_sum, n,
                                       len_dataloader(n, cfg.val_batch_size),
                                       cfg.val_batch_size),
                                       ![i].no_grad = FALSE,
                                       ![i].pc = "append_val"]
             /\ disk' = logger_info(disk, root_handler[pid[i]], i, "validation")
             /\ hist' = [hist EXCEPT
                  ![i].accs = Append(@, frame'[i].val_acc_mean),
                  ![i].validated = Append(@, self[i].model[1].weights),
                  ![i].val_wrong = Append(@,
                     Cardinality({s \in DOMAIN hist[i].correct : ~hist[i].correct[s]}))]
     /\ UNCHANGED <<clock, cfg, invocations, pid, root_handler, self>>

\* self.val_loss.append(val_loss_sum / len(val_dataloader))
append_val_loss(i) ==
  LET nb == len_dataloader(frame[i].val_samples_count, cfg.val_batch_size)
  IN /\ frame[i].pc = "append_val"
     /\ self' = [self EXCEPT ![i].val_loss = Append(@, mean(frame[i].val_loss_sum, nb))]
     /\ frame' = [frame EXCEPT ![i].pc = "log_loss"]
     /\ hist' = [hist EXCEPT ![i].correct = <<>>]
     /\ UNCHANGED <<clock, cfg, invocations, pid, root_handler, disk>>


\* plt.plot(x, y) accepts x and y of the same length only.
plot_ok(x, y) == Len(x) = Len(y)

\* LSTM.log_loss(epoch): loss.log is rewritten from the two histories, then
\* loss.png is drawn against the epochs 0..epoch.
log_loss(i) ==
  LET tl == self[i].train_loss
      vl == self[i].val_loss
      d == self[i].save_to
      x == linspace(frame[i].epoch)
      logged == write_file(disk, d, "loss_log", savetxt(tl, vl), i)
  IN /\ frame[i].pc = "log_loss"
     /\ hist' = [hist EXCEPT ![i].log_calls = Append(@, frame[i].epoch),
                             ![i].failed = ~(plot_ok(x, tl) /\ plot_ok(x, vl))]
     /\ IF Len(tl) # Len(vl)
        THEN /\ frame' = [frame EXCEPT ![i] = raise(@)]
             /\ UNCHANGED disk
        ELSE IF ~(plot_ok(x, tl) /\ plot_ok(x, vl))
        THEN /\ frame' = [frame EXCEPT ![i] = raise(@)]
             /\ disk' = logged
        ELSE /\ frame' = [frame EXCEPT ![i].pc = "decide"]
             /\ disk' = write_file(logged, d, "loss_png",
                                   [x |-> x, train_loss |-> tl, val_loss |-> vl], i)
     /\ UNCHANGED <<clock, cfg, invocations, pid, root_handler, self>>

\* Variants of the comparison: <= and != in place of <.
improved_or_equal(highest_acc, val_acc_mean) == ~RatLess(val_acc_mean, highest_acc)

improved_or_changed(highest_acc, val_acc_mean) == ~RatEq(highest_acc, val_acc_mean)

\* if highest_acc < val_acc_mean
improved(highest_acc, val_acc_mean) == RatLess(highest_acc, val_acc_mean)

\* The checkpoint decision at the end of the epoch.
decide(i) ==
  /\ frame[i].pc = "decide"
  /\ IF improved(frame[i].highest_acc, frame[i].val_acc_mean)
     THEN /\ frame' = [frame EXCEPT ![i].highest_acc = frame[i].val_acc_mean,
                                    ![i].pc = "save_model"]
          /\ disk' = logger_info(disk, root_handler[pid[i]], i, "updated")
          /\ UNCHANGED hist
     ELSE /\ frame' = [frame EXCEPT ![i].epoch = @ + 1, ![i].pc = "for_epoch"]
          /\ hist' = [hist EXCEPT ![i].completed = @ + 1]
          /\ UNCHANGED disk
  /\ UNCHANGED <<clock, cfg, invocations, pid, root_handler, self>>

\* torch.save(model, path) pickles the whole module, its parameters with their
\* flags and its mode, as a stream of values; torch.load(path) rebuilds the
\* module from the stream.
pickle(m) == <<m.weights, m.requires_grad, m.training>>

torch_load(b) == [weights |-> b[1], training |-> b[3], requires_grad |-> b[2]]

\* LSTM.save_model, first half: torch.save(model, model_path)
torch_save(i) ==
  /\ frame[i].pc = "save_model"
  /\ disk' = write_file(disk, self[i].save_to, "best_model_pth",
                        pickle(self[i].model[1]), i)
  /\ frame' = [frame EXCEPT ![i].pc = "trace"]
  /\ hist' = [hist EXCEPT ![i].saves = Append(@, frame[i].epoch)]
  /\ UNCHANGED <<clock, cfg, invocations, pid, root_handler, self>>

\* A variant of the copy: load_state_dict is left out.
script_model_fresh(m) == [Network EXCEPT !.requires_grad = FALSE, !.training = FALSE]

\* A fresh Network loaded with the state_dict, frozen and put in eval mode.
script_model(m) ==
  [Network EXCEPT !.weights = m.weights, !.requires_grad = FALSE, !.training = FALSE]

\* A variant of the copy: script_model = model, the live module itself.
script_model_ref_live == "live"

\* The object the name script_model refers to in save_model: a fresh Network,
\* not the live module the method was called with.
script_model_ref == "copy"

\* LSTM.save_model, second half: the module script_model refers to is loaded
\* with the state_dict, frozen, put in eval mode, traced and saved; back in
\* train(), the epoch ends.
trace_save(i) ==
  LET heap == [live |-> self[i].model[1], copy |-> Network]
      after == [heap EXCEPT ![script_model_ref] = script_model(heap.live)]
  IN /\ frame[i].pc = "trace"
     /\ IF cfg.missing \in save_model_reads
        THEN /\ frame' = [frame EXCEPT ![i] = raise(@)]
             /\ hist' = [hist EXCEPT ![i].failed = TRUE]
             /\ UNCHANGED <<disk, self>>
        ELSE /\ disk' = logger_info(
                  write_file(disk, self[i].save_to, "best_model_pt",
                             after[script_model_ref], i),
                  root_handler[pid[i]], i, "saved")
             /\ self' = [self EXCEPT ![i].model[1] = after.live]
             /\ frame' = [frame EXCEPT ![i].epoch = @ + 1, ![i].pc = "for_epoch"]
             /\ hist' = [hist EXCEPT ![i].completed = @ + 1]
     /\ UNCHANGED <<clock, cfg, invocations, pid, root_handler>>

\* The steps that fetch a batch, call the network or write an artifact.
Fallible == {"batch", "val", "log_loss", "save_model", "trace"}

\* A step raises: the exception leaves train().
fail(i) ==
  /\ frame[i].pc \in Fallible
  /\ frame' = [frame EXCEPT ![i] = raise(@)]
  /\ hist' = [hist EXCEPT ![i].correct = <<>>, ![i].batch_losses = <<>>,
                          ![i].failed = TRUE]
  /\ UNCHANGED <<clock, cfg, invocations, pid, root_handler, disk, self>>

\* ---------------------------------------------------------------- specifications
Step(i) ==
  \/ load_data(i)
  \/ build(i)
  \/ train(i)
  \/ epoch_begin(i)
  \/ train_batch(i)
  \/ append_train_loss(i)
  \/ scheduler_step(i)
  \/ val_begin(i)
  \/ val_batch(i)
  \/ val_acc(i)
  \/ append_val_loss(i)
  \/ log_loss(i)
  \/ decide(i)
  \/ torch_save(i)
  \/ trace_save(i)
  \/ train_return(i)
  \/ fail(i)

\* One LSTM instance, just constructed in a fresh output directory, on which the
\* caller invokes load_data(), build() and train().
Init ==
  /\ clock = 0
  /\ cfg \in Configs
  /\ invocations = 1
  /\ pid = [i \in Inst |-> 1]
  /\ root_handler = [p \in Procs |-> IF p = 1 THEN File(strftime(0)) ELSE NoFile]
  /\ disk = init_disk([d \in Dirs |-> EmptyDir], NoFile, 0, 1)
  /\ self = [i \in Inst |-> IF i = 1 THEN init_self(0) ELSE NoSelf]
  /\ frame = [i \in Inst |-> IF i = 1 THEN [NoFrame EXCEPT !.pc = "constructed"]
                                      ELSE NoFrame]
  /\ hist = [i \in Inst |-> NoHist]

Next == Step(1)

Spec == Init /\ [][Next]_vars

\* The steps of a train() call under way: the interpreter runs the next
\* statement as long as there is one.
Running(i) ==
  \/ epoch_begin(i)
  \/ train_batch(i)
  \/ append_train_loss(i)
  \/ scheduler_step(i)
  \/ val_begin(i)
  \/ val_batch(i)
  \/ val_acc(i)
  \/ append_val_loss(i)
  \/ log_loss(i)
  \/ decide(i)
  \/ torch_save(i)
  \/ trace_save(i)
  \/ train_return(i)

FairSpec == Spec /\ WF_vars(Running(1))

\* Two instances given the same configuration, in one process or in two, each
\* constructed at some time.
ConcConfigs ==
  [epoch: {1}, lr: InitialRates, gamma: Gammas,
   train_batch_size: {1}, val_batch_size: {1},
   train_files: {1}, val_files: {1}, missing: {"none"}]

InitConc ==
  /\ clock = 0
  /\ cfg \in ConcConfigs
  /\ invocations = 1
  /\ pid \in {[i \in Inst |-> 1], [i \in Inst |-> i]}
  /\ root_handler = [p \in Procs |-> NoFile]
  /\ disk = [d \in Dirs |-> EmptyDir]
  /\ self = [i \in Inst |-> NoSelf]
  /\ frame = [i \in Inst |-> NoFrame]
  /\ hist = [i \in Inst |-> NoHist]

NextConc ==
  \/ Tick
  \/ \E i \in Inst : Construct(i) \/ Step(i)

SpecConc == InitConc /\ [][NextConc]_vars

\* One instance, from its construction on, under a configuration that may lack
\* an option.
InitStartup ==
  /\ clock = 0
  /\ cfg \in StartupConfigs
  /\ invocations = 1
  /\ pid = [i \in Inst |-> 1]
  /\ root_handler = [p \in Procs |-> NoFile]
  /\ disk = [d \in Dirs |-> EmptyDir]
  /\ self = [i \in Inst |-> NoSelf]
  /\ frame = [i \in Inst |-> NoFrame]
  /\ hist = [i \in Inst |-> NoHist]

NextStartup == Construct(1) \/ Step(1)

SpecStartup == InitStartup /\ [][NextStartup]_vars

\* One instance on which the caller invokes train() twice, the second time
\* after the first call returned.
InitRepeat ==
  /\ clock = 0
  /\ cfg \in PassConfigs
  /\ invocations = 2
  /\ pid = [i \in Inst |-> 1]
  /\ root_handler = [p \in Procs |-> IF p = 1 THEN File(strftime(0)) ELSE NoFile]
  /\ disk = init_disk([d \in Dirs |-> EmptyDir], NoFile, 0, 1)
  /\ self = [i \in Inst |-> IF i = 1 THEN init_self(0) ELSE NoSelf]
  /\ frame = [i \in Inst |-> IF i = 1 THEN [NoFrame EXCEPT !.pc = "constructed"]
                                      ELSE NoFrame]
  /\ hist = [i \in Inst |-> NoHist]

SpecRepeat == InitRepeat /\ [][Next]_vars


\* ---------------------------------------------------------------- properties
\* The properties are about instance 1; its output directory is OutDir.
OutDir == disk[self[1].save_to]

\* An epoch of the current train() call has just ended, or the call returned.
EpochEnd == frame[1].pc \in {"for_epoch", "finished"} /\ frame[1].epoch >= 1

\* The greatest of the accuracies a (non-empty), and the first epoch (numbered
\* from 1) that reached it.
MaxAcc(a) == CHOOSE m \in {a[k] : k \in 1..Len(a)} :
               \A k \in 1..Len(a) : ~RatLess(m, a[k])

FirstBest(a) == CHOOSE e \in 1..Len(a) :
                  /\ RatEq(a[e], MaxAcc(a))
                  /\ \A k \in 1..(e - 1) : ~RatEq(a[k], MaxAcc(a))

CheckpointExists ==
  OutDir.best_model_pth # NoFile \/ OutDir.best_model_pt # NoFile

\* C1: at the end of every epoch, a checkpoint on disk holds (in both of its
\* files) the weights validated in the earliest epoch whose accuracy is the
\* greatest so far, and that greatest accuracy is highest_acc.
C1_BestCheckpoint ==
  (EpochEnd /\ CheckpointExists) =>
    LET a == hist[1].accs
        w == hist[1].validated[FirstBest(a)]
    IN /\ Len(a) = frame[1].epoch
       /\ OutDir.best_model_pth # NoFile /\ OutDir.best_model_pt # NoFile
       /\ torch_load(OutDir.best_model_pth[1]).weights = w
       /\ OutDir.best_model_pt[1].weights = w
       /\ RatEq(frame[1].highest_acc, MaxAcc(a))

\* A later epoch tied with the best one and the checkpoint is still the earlier one.
C1_Witness ==
  /\ EpochEnd /\ CheckpointExists
  /\ \E e \in 1..Len(hist[1].accs) :
       /\ e > FirstBest(hist[1].accs)
       /\ RatEq(hist[1].accs[e], MaxAcc(hist[1].accs))
       /\ hist[1].validated[e] # torch_load(OutDir.best_model_pth[1]).weights


\* C2: a train() call runs the epochs 0, 1, ..., epoch_count - 1 in this order,
\* returns only after all of them whatever the accuracies were, and, once
\* started, reaches 'Training finished.' unless a step fails.
C2_AllEpochs ==
  /\ [](hist[1].epochs = [k \in 1..Len(hist[1].epochs) |-> k - 1])
  /\ [](frame[1].pc = "finished" =>
          /\ frame[1].epoch = cfg.epoch
          /\ Len(hist[1].epochs) = cfg.epoch
          /\ Len(hist[1].accs) = cfg.epoch
          /\ Len(hist[1].log_calls) = cfg.epoch)
  /\ (frame[1].pc = "for_epoch" ~> frame[1].pc \in {"finished", "aborted"})

\* A full run returned although an epoch did not improve on the one before.
C2_Witness ==
  /\ frame[1].pc = "finished" /\ frame[1].calls = 1
  /\ cfg.epoch = MaxEpochs
  /\ \E e \in 2..Len(hist[1].accs) : RatLess(hist[1].accs[e], hist[1].accs[e - 1])

\* C3: an epoch whose validation accuracy equals highest_acc leaves highest_acc
\* as it is, does not call save_model and leaves both checkpoint files as they are.
C3_TieUnchanged ==
  [][(frame[1].pc = "decide" /\ RatEq(frame[1].val_acc_mean, frame[1].highest_acc)) =>
       /\ frame'[1].highest_acc = frame[1].highest_acc
       /\ frame'[1].pc = "for_epoch"
       /\ hist'[1].saves = hist[1].saves
       /\ OutDir'.best_model_pth = OutDir.best_model_pth
       /\ OutDir'.best_model_pt = OutDir.best_model_pt]_vars

\* An epoch that tied with a positive best accuracy has ended without a save.
C3_Witness ==
  /\ EpochEnd /\ CheckpointExists
  /\ RatEq(hist[1].accs[frame[1].epoch], frame[1].highest_acc)
  /\ \A k \in 1..Len(hist[1].saves) : hist[1].saves[k] # frame[1].epoch - 1
  /\ torch_load(OutDir.best_model_pth[1]).weights # self[1].model[1].weights

\* C4: highest_acc is 0.0 when the loop is entered; as long as the train() call
\* that owns it is under way it never decreases, and it changes only at the
\* decision of an epoch whose accuracy is strictly greater, to exactly that
\* accuracy.
C4_HighestAcc ==
  /\ []((frame[1].pc = "for_epoch" /\ frame[1].epoch = 0) =>
          frame[1].highest_acc = <<0, 1>>)
  /\ [][(frame'[1].calls = frame[1].calls /\ frame'[1].pc # "aborted") =>
          /\ ~RatLess(frame'[1].highest_acc, frame[1].highest_acc)
          /\ frame'[1].highest_acc # frame[1].highest_acc =>
               /\ frame[1].pc = "decide"
               /\ RatLess(frame[1].highest_acc, frame[1].val_acc_mean)
               /\ frame'[1].highest_acc = frame[1].val_acc_mean]_vars

\* highest_acc rose twice and the last epoch, with a lower accuracy, left it alone.
C4_Witness ==
  /\ EpochEnd
  /\ Len(hist[1].saves) >= 2
  /\ RatLess(hist[1].accs[frame[1].epoch], frame[1].highest_acc)


RECURSIVE SeqSum(_)
SeqSum(q) == IF q = <<>> THEN 0 ELSE q[1] + SeqSum(Tail(q))

RECURSIVE Pow(_, _)
Pow(b, n) == IF n = 0 THEN 1 ELSE b * Pow(b, n - 1)

RatPow(a, n) == <<Pow(a[1], n), Pow(a[2], n)>>

\* C5: between epochs both loss histories have one entry per completed epoch,
\* and entry e is the mean batch loss of that epoch's training pass, resp.
\* validation pass.
C5_HistoryLengths ==
  frame[1].pc \in {"for_epoch", "finished"} =>
    /\ Len(self[1].train_loss) = hist[1].completed
    /\ Len(self[1].val_loss) = hist[1].completed
    /\ hist[1].completed = frame[1].epoch
    /\ \A e \in 1..hist[1].completed :
         /\ RatEq(self[1].train_loss[e],
                  <<SeqSum(hist[1].train_batches[e]), Len(hist[1].train_batches[e])>>)
         /\ RatEq(self[1].val_loss[e],
                  <<hist[1].val_wrong[e],
                    len_dataloader(cfg.val_files, cfg.val_batch_size)>>)

\* Two epochs are completed, of two training batches each, with different means.
C5_Witness ==
  /\ frame[1].pc = "for_epoch" /\ hist[1].completed = 2
  /\ Len(hist[1].train_batches[1]) = 2
  /\ SeqSum(hist[1].train_batches[1]) = 1
  /\ ~RatEq(self[1].train_loss[1], self[1].train_loss[2])
  /\ ~RatEq(self[1].val_loss[1], self[1].val_loss[2])

\* C6: the validation accuracy of an epoch is the number of samples predicted
\* right in the pass divided by the number of validation samples, whatever the
\* batch size, and lies in [0, 1].
C6_ValAccuracy ==
  frame[1].pc = "append_val" =>
    LET n == cfg.val_files
        c == hist[1].correct
    IN /\ DOMAIN c = 1..n
       /\ RatEq(frame[1].val_acc_mean, <<Cardinality({s \in 1..n : c[s]}), n>>)
       /\ ~RatLess(frame[1].val_acc_mean, <<0, 1>>)
       /\ ~RatLess(<<1, 1>>, frame[1].val_acc_mean)
       /\ frame[1].val_acc_mean[2] > 0

\* A pass whose last batch is smaller than the others, with a right prediction
\* in it and a wrong one elsewhere.
C6_Witness ==
  /\ frame[1].pc = "append_val"
  /\ cfg.val_files > cfg.val_batch_size
  /\ cfg.val_files % cfg.val_batch_size # 0
  /\ hist[1].correct[cfg.val_files]
  /\ ~hist[1].correct[1]

\* C7: the training pass of epoch e runs (and logs) at the rate r0 * gamma^e,
\* the rate after n epochs is r0 * gamma^n, and there is one scheduler step per
\* training pass, taken right after the pass.  For gamma = 0.5 and r0 = 0.1 the
\* rates logged are 0.10000000, 0.05000000, 0.02500000.
C7_LearningRate ==
  LET r(e) == RatMul(cfg.lr, RatPow(cfg.gamma, e))
  IN /\ frame[1].pc \in {"batch", "for_epoch", "sched"} => RatEq(frame[1].lr, r(frame[1].epoch))
     /\ frame[1].pc \in {"val_begin", "val", "append_val", "log_loss", "decide",
                         "save_model", "trace"} =>
          RatEq(frame[1].lr, r(frame[1].epoch + 1))
     /\ \A k \in 1..Len(hist[1].rates) : RatEq(hist[1].rates[k], r(k - 1))
     /\ Len(hist[1].rates) = hist[1].decays
     /\ hist[1].passes = hist[1].decays + (IF frame[1].pc = "sched" THEN 1 ELSE 0)
     /\ (cfg.lr = <<1, 10>> /\ cfg.gamma = <<1, 2>> /\ Len(hist[1].rates) = 3) =>
          [k \in 1..3 |-> fmt8(hist[1].rates[k])] = <<10000000, 5000000, 2500000>>

\* Three epochs ran with gamma = 0.5 from 0.1: the rate is 0.0125 now.
C7_Witness ==
  /\ frame[1].pc = "for_epoch" /\ frame[1].epoch = 3
  /\ cfg.gamma = <<1, 2>>
  /\ frame[1].lr = <<1, 80>>
  /\ hist[1].decays = 3


StrictlyIncreasing(a) == \A k \in 2..Len(a) : RatLess(a[k - 1], a[k])

ThreeRisingEpochs ==
  /\ frame[1].pc = "finished" /\ cfg.epoch = 3
  /\ Len(hist[1].accs) = 3 /\ StrictlyIncreasing(hist[1].accs)

\* C8, as stated: a run of 3 epochs whose validation accuracy rises in every
\* epoch calls save_model exactly once.
C8_OneWrite == ThreeRisingEpochs => Len(hist[1].saves) = 1

\* C8, amended: such a run calls save_model in every epoch whose accuracy is
\* above 0.0 (epochs 0, 1, 2, or 1, 2 when the first accuracy is 0.0), each call
\* overwriting the files of the one before, so that the one checkpoint on disk
\* is the last epoch's.
C8_WritePerRise ==
  ThreeRisingEpochs =>
    /\ hist[1].saves = IF RatLess(<<0, 1>>, hist[1].accs[1]) THEN <<0, 1, 2>>
                       ELSE <<1, 2>>
    /\ torch_load(OutDir.best_model_pth[1]) = self[1].model[1]
    /\ torch_load(OutDir.best_model_pth[1]).weights = hist[1].validated[3]
    /\ OutDir.best_model_pt[1].weights = hist[1].validated[3]

\* A run of 3 rising epochs, the first above 0.0, has returned after 3 saves.
C8_Witness ==
  /\ ThreeRisingEpochs
  /\ RatLess(<<0, 1>>, hist[1].accs[1])
  /\ Len(hist[1].saves) = 3

\* C9: log_loss is called once per epoch, and when the call of epoch e returns
\* loss.log holds e + 1 rows, row k being the 8-decimal rendering of
\* (train_loss[k], val_loss[k]), the mean losses of epoch k - 1, whatever the
\* file held before.
C9_LogLossOverwrite ==
  LET calls == hist[1].log_calls
      tl == self[1].train_loss
      vl == self[1].val_loss
      nb == len_dataloader(cfg.val_files, cfg.val_batch_size)
  IN /\ frame[1].pc = "decide" =>
          /\ calls = [k \in 1..(frame[1].epoch + 1) |-> k - 1]
          /\ OutDir.loss_log # NoFile
          /\ Len(OutDir.loss_log[1]) = frame[1].epoch + 1
          /\ \A k \in 1..(frame[1].epoch + 1) :
               /\ OutDir.loss_log[1][k] = <<fmt8(tl[k]), fmt8(vl[k])>>
               /\ OutDir.loss_log[1][k][1] =
                    fmt8(<<SeqSum(hist[1].train_batches[k]),
                           Len(hist[1].train_batches[k])>>)
               /\ OutDir.loss_log[1][k][2] = fmt8(<<hist[1].val_wrong[k], nb>>)
     /\ frame[1].pc \in {"for_epoch", "finished"} =>
          calls = [k \in 1..frame[1].epoch |-> k - 1]

\* The third call has replaced a file of two rows by one of three different rows.
C9_Witness ==
  /\ frame[1].pc = "decide" /\ frame[1].epoch = 2
  /\ Len(OutDir.loss_log[1]) = 3
  /\ OutDir.loss_log[1][1] # OutDir.loss_log[1][2]
  /\ OutDir.loss_log[1][2] # OutDir.loss_log[1][3]
  /\ OutDir.loss_log[1][1] # OutDir.loss_log[1][3]

\* C10: two instances never have the same output directory, and no file of a
\* directory is written by two instances.
C10_ExclusiveDir ==
  /\ \A i, j \in Inst :
       (i # j /\ frame[i].pc # "absent" /\ frame[j].pc # "absent") =>
         self[i].save_to # self[j].save_to
  /\ \A d \in Dirs, f \in FileNames : Cardinality(disk[d].writers[f]) <= 1

\* The 'Training finished.' line of instance 1 is in train.log.
FinishedLogged == <<1, "finished">> \in disk[root_handler[pid[1]][1]].train_log

\* C11: a step that raises ends the train() call: the step is not retried, no
\* later step of the epoch and no later epoch runs (nothing of the instance, of
\* its history or of the disk changes any more), 'Training finished.' is never
\* logged; and the line is logged only by a call that ran every epoch.
C11_FailureFatal ==
  /\ [](hist[1].failed => (frame[1].pc = "aborted" /\ ~FinishedLogged))
  /\ [](frame[1].pc = "aborted" => hist[1].failed)
  /\ [][frame[1].pc = "aborted" =>
          (frame' = frame /\ hist' = hist /\ self' = self /\ disk' = disk)]_vars
  /\ [](FinishedLogged => (frame[1].pc = "finished" /\ ~hist[1].failed
                            /\ Len(hist[1].epochs) = cfg.epoch))

\* The second epoch of three failed in save_model after best_model.pth was
\* written: the run has stopped there, with the first epoch's loss.png on disk.
C11_Witness ==
  /\ frame[1].pc = "aborted" /\ hist[1].failed
  /\ cfg.epoch = 3 /\ hist[1].epochs = <<0, 1>>
  /\ hist[1].saves = <<0, 1>>
  /\ torch_load(OutDir.best_model_pth[1]).weights # OutDir.best_model_pt[1].weights
  /\ ~FinishedLogged

\* Instance 1 has processed a training batch, or its model was updated.
Trained ==
  \/ hist[1].epochs # <<>>
  \/ hist[1].batch_losses # <<>>
  \/ hist[1].train_batches # <<>>
  \/ (self[1].model # NoFile /\ self[1].model[1].weights # 0)

C13_SaveRoundTrip ==
  [][(frame[1].pc = "trace" /\ frame'[1].pc = "for_epoch") =>
       /\ OutDir'.best_model_pth # NoFile /\ OutDir'.best_model_pt # NoFile
       /\ torch_load(OutDir'.best_model_pth[1]) = self'[1].model[1]
       /\ OutDir'.best_model_pt[1].weights = self'[1].model[1].weights
       /\ OutDir'.best_model_pt[1].weights =
            torch_load(OutDir'.best_model_pth[1]).weights
       /\ ~OutDir'.best_model_pt[1].requires_grad
       /\ ~OutDir'.best_model_pt[1].training
       /\ self'[1].model = self[1].model
       /\ self'[1].model[1].weights = hist[1].validated[frame[1].epoch + 1]]_vars

\* The save_model call of the second epoch has returned: both files hold the
\* weights after two training passes, no longer those of the first save.
C13_Witness ==
  /\ frame[1].pc = "for_epoch" /\ frame[1].epoch = 2
  /\ hist[1].saves = <<0, 1>>
  /\ hist[1].validated[1] # hist[1].validated[2]
  /\ torch_load(OutDir.best_model_pth[1]).weights = hist[1].validated[2]
  /\ OutDir.best_model_pt[1].weights = hist[1].validated[2]

\* The epochs (numbered from 1) of a whose accuracy is above 0.0 and above the
\* accuracy of every earlier epoch.
RecordHighs(a) ==
  {e \in 1..Len(a) : /\ RatLess(<<0, 1>>, a[e])
                     /\ \A k \in 1..(e - 1) : RatLess(a[k], a[e])}

\* C14: between epochs, the epochs in which save_model was called are exactly
\* the epochs whose accuracy is above 0.0 and above that of every earlier epoch
\* of the call, each once and in order.
C14_SaveTrigger ==
  frame[1].pc \in {"for_epoch", "finished"} =>
    LET a == hist[1].accs
        sv == hist[1].saves
    IN /\ Len(a) = frame[1].epoch
       /\ {sv[k] + 1 : k \in 1..Len(sv)} = RecordHighs(a)
       /\ \A k \in 2..Len(sv) : sv[k - 1] < sv[k]
       /\ Len(sv) = Cardinality(RecordHighs(a))

\* Three epochs: accuracy 0.0 (no save), then a record (a save), then the same
\* accuracy again (no save).
C14_Witness ==
  /\ frame[1].pc = "finished" /\ frame[1].epoch = 3
  /\ RatEq(hist[1].accs[1], <<0, 1>>)
  /\ RatLess(<<0, 1>>, hist[1].accs[2])
  /\ RatEq(hist[1].accs[2], hist[1].accs[3])
  /\ hist[1].saves = <<1>>

\* The statement that follows each statement of the loop.
LoopOrder ==
  {<<"for_epoch", "batch">>, <<"batch", "batch">>, <<"batch", "sched">>,
   <<"sched", "val_begin">>, <<"val_begin", "val">>, <<"val", "val">>,
   <<"val", "append_val">>, <<"append_val", "log_loss">>,
   <<"log_loss", "decide">>, <<"decide", "save_model">>,
   <<"decide", "for_epoch">>, <<"save_model", "trace">>,
   <<"trace", "for_epoch">>, <<"for_epoch", "finished">>}

InLoop ==
  {"for_epoch", "batch", "sched", "val_begin", "val", "append_val", "log_loss",
   "decide", "save_model", "trace"}

\* What each step of epoch e finds done; `ahead` is the number of entries by
\* which train_loss is ahead of val_loss between the training pass and the end
\* of the validation pass.
StepsDone(ahead) ==
  LET e == frame[1].epoch
      pc == frame[1].pc
      tl == Len(self[1].train_loss)
      vl == Len(self[1].val_loss)
  IN /\ pc \in InLoop => Len(hist[1].epochs) = (IF pc = "for_epoch" THEN e ELSE e + 1)
     /\ pc \in {"for_epoch", "batch"} =>
          /\ tl = e /\ vl = e /\ hist[1].decays = e
          /\ Len(hist[1].accs) = e /\ Len(hist[1].log_calls) = e
          /\ hist[1].completed = e
     /\ pc = "sched" =>
          /\ frame[1].batch_index * cfg.train_batch_size >= cfg.train_files
          /\ hist[1].decays = e
          /\ tl = e + ahead /\ vl = e
     /\ pc \in {"val_begin", "val", "append_val"} =>
          /\ hist[1].decays = e + 1
          /\ tl = e + ahead /\ vl = e
          /\ Len(hist[1].log_calls) = e
     /\ pc = "append_val" =>
          /\ frame[1].val_index * cfg.val_batch_size >= cfg.val_files
          /\ Len(hist[1].accs) = e + 1
     /\ pc = "log_loss" =>
          /\ tl = e + 1 /\ vl = e + 1
          /\ Len(hist[1].log_calls) = e
          /\ \A k \in 1..Len(hist[1].saves) : hist[1].saves[k] < e
     /\ pc \in {"decide", "save_model", "trace"} =>
          /\ tl = e + 1 /\ vl = e + 1
          /\ Len(hist[1].log_calls) = e + 1
          /\ OutDir.loss_log # NoFile /\ Len(OutDir.loss_log[1]) = e + 1
          /\ OutDir.loss_png # NoFile /\ Len(OutDir.loss_png[1].train_loss) = e + 1
          /\ hist[1].completed = e

\* The statements run in the order of the loop, an epoch begins only when the
\* decision (and the save, if any) of the one before is over, and the weights
\* change only from one training batch to the next.
StepsInOrder ==
  [][/\ (frame[1].pc \in InLoop /\ frame'[1].pc # frame[1].pc) =>
          (<<frame[1].pc, frame'[1].pc>> \in LoopOrder \/ frame'[1].pc = "aborted")
     /\ (frame[1].pc \in InLoop /\ self'[1].model # self[1].model) =>
          (frame[1].pc = "batch" /\ frame'[1].pc = "batch") \/
          (frame[1].pc = "for_epoch" /\ frame'[1].pc = "batch"
             /\ self'[1].model[1].weights = self[1].model[1].weights) \/
          (frame[1].pc = "val_begin" /\ frame'[1].pc = "val"
             /\ self'[1].model[1].weights = self[1].model[1].weights)]_vars

\* C15, as stated: in every epoch the training pass, the decay step, the
\* validation pass, then the appending of both losses and log_loss, then the
\* decision and the save, in this order.
C15_StepOrder == []StepsDone(0) /\ StepsInOrder

\* C15, amended: the same order, except that the training loss is appended to
\* its history right after the training pass, before the decay step and the
\* validation pass; only the validation loss is appended after validation.
C15_StepOrderTrainLossFirst == []StepsDone(1) /\ StepsInOrder

\* The validation pass of the second epoch is under way: two training losses
\* are in the history, one validation loss, and the rate has decayed twice.
C15_Witness ==
  /\ frame[1].pc = "val" /\ frame[1].epoch = 1 /\ frame[1].val_index = 1
  /\ Len(self[1].train_loss) = 2 /\ Len(self[1].val_loss) = 1
  /\ hist[1].decays = 2
  /\ hist[1].saves = <<0>>

\* C16: inside the loop the live model's weights change only by the optimizer
\* step of a training batch, one update at a time, and its parameters stay
\* trainable throughout; the decay step, the validation pass, log_loss, the
\* decision and save_model leave both as they are, so the first training batch
\* after a save starts from the weights in the two checkpoint files.
C16_ModelFrame ==
  /\ [][frame[1].pc \in InLoop =>
          /\ self'[1].model[1].requires_grad = self[1].model[1].requires_grad
          /\ self'[1].model[1].weights # self[1].model[1].weights =>
               /\ frame[1].pc = "batch" /\ frame'[1].pc = "batch"
               /\ frame'[1].batch_index = frame[1].batch_index + 1
               /\ self'[1].model[1].weights = self[1].model[1].weights + 1]_vars
  /\ [](frame[1].pc \in InLoop => self[1].model[1].requires_grad)
  /\ []((/\ frame[1].pc = "batch" /\ frame[1].batch_index = 0
          /\ hist[1].saves # <<>>
          /\ hist[1].saves[Len(hist[1].saves)] = frame[1].epoch - 1) =>
           /\ torch_load(OutDir.best_model_pth[1]).weights = self[1].model[1].weights
           /\ OutDir.best_model_pt[1].weights = self[1].model[1].weights
           /\ torch_load(OutDir.best_model_pth[1]).requires_grad)

\* The epoch after a save has processed its first training batch: the live
\* model, still trainable, is one update past the saved weights.
C16_Witness ==
  /\ frame[1].pc = "batch" /\ frame[1].batch_index = 1 /\ frame[1].epoch = 1
  /\ hist[1].saves = <<0>>
  /\ self[1].model[1].requires_grad
  /\ self[1].model[1].weights = torch_load(OutDir.best_model_pth[1]).weights + 1
  /\ self[1].model[1].weights = OutDir.best_model_pt[1].weights + 1
  /\ ~OutDir.best_model_pt[1].requires_grad

\* C17: every training batch is processed by the model in learning mode with
\* gradients enabled, every validation batch by the model in inference mode
\* with gradients disabled, in the first epoch and in every later one.
C17_ModelMode ==
  /\ [](frame[1].pc = "batch" => (self[1].model[1].training /\ ~frame[1].no_grad))
  /\ [](frame[1].pc = "val" => (~self[1].model[1].training /\ frame[1].no_grad))
  /\ [][frame'[1].batch_index = frame[1].batch_index + 1 =>
          (self[1].model[1].training /\ ~frame[1].no_grad)]_vars
  /\ [][frame'[1].val_index = frame[1].val_index + 1 =>
          (~self[1].model[1].training /\ frame[1].no_grad)]_vars

\* The second epoch, which follows a validation pass and a save, has processed
\* a training batch in learning mode; the checkpoint was saved in inference mode.
C17_Witness ==
  /\ frame[1].pc = "batch" /\ frame[1].epoch = 1 /\ frame[1].batch_index = 1
  /\ hist[1].saves = <<0>>
  /\ self[1].model[1].training /\ ~frame[1].no_grad
  /\ ~torch_load(OutDir.best_model_pth[1]).training

\* C18: whenever log_loss(epoch) is called, in the first train() call on the
\* instance or in a later one, both loss histories have exactly epoch + 1 entries.
C18_HistoryPerCall ==
  frame[1].pc = "log_loss" =>
    /\ Len(self[1].train_loss) = frame[1].epoch + 1
    /\ Len(self[1].val_loss) = frame[1].epoch + 1

====
